---- MODULE Spec2Model ----
(***************************************************************************)
(* Coriolis animations: the numerical core of                              *)
(*   scripts/coriolis_earth_deflection.py  (RK4 integrator on the sphere)  *)
(*   scripts/coriolis_merry_go_round.py    (closed-form disk trajectories) *)
(*                                                                         *)
(* float64 values are modelled as fixed-point integers with six decimal    *)
(* places: the integer n stands for the real n / 10^6, so 1e-6 is the      *)
(* integer 1.  Every product and quotient is rounded to the nearest        *)
(* multiple of 1e-6 (float64 rounds to the nearest double).  TLC's         *)
(* integers are 32 bits wide, so products are formed limb by limb and all  *)
(* modelled magnitudes stay below 1000.                                    *)
(***************************************************************************)
EXTENDS Integers, Sequences, FiniteSets, TLC

\* ------------------------------------------------------------------------
\* Fixed-point arithmetic (float64 +, -, *, /)
\*
\* An operator that uses an operand more than once first binds it to its
\* value (x \in {a}), so that the operand is computed once.
\* ------------------------------------------------------------------------
K == 10 ^ 3
S == K * K

The(set) == CHOOSE r \in set : TRUE

AbsV(a) == IF a < 0 THEN -a ELSE a

SignV(a) == IF a < 0 THEN -1 ELSE IF a > 0 THEN 1 ELSE 0

Abs(a) == The({ AbsV(x) : x \in {a} })

Sign(a) == The({ SignV(x) : x \in {a} })

\* Python's max(a, b) on two floats
Max2(a, b) == The({ IF y > x THEN y ELSE x : x \in {a}, y \in {b} })

\* float quotient n / d for an integer d # 0, rounded to nearest
RoundDiv(n, d) ==
    The({ SignV(x) * SignV(y) * ((2 * AbsV(x) + AbsV(y)) \div (2 * AbsV(y))) :
            x \in {n}, y \in {d} })

\* a * b / S for a, b >= 0, rounded to nearest, limb by limb
MulAbs(a, b) ==
    The({ ah * bh + ((ah * bl + al * bh + ((al * bl + (S \div 2)) \div K)) \div K) :
            ah \in {a \div K}, al \in {a % K}, bh \in {b \div K}, bl \in {b % K} })

\* float product a * b
Mul(a, b) ==
    The({ SignV(x) * SignV(y) * MulAbs(AbsV(x), AbsV(y)) : x \in {a}, y \in {b} })

\* a * S / b for a >= 0 and 0 < b <= 2 * S, rounded to nearest, limb by limb
DivAbs(a, b) ==
    The({ The({ q1 * S + q2 * K + ((r2 * K + (b \div 2)) \div b) :
                  q2 \in {(r1 * K) \div b}, r2 \in {(r1 * K) % b} }) :
            q1 \in {a \div b}, r1 \in {a % b} })

\* float quotient a / b, b # 0
Div(a, b) ==
    The({ SignV(x) * SignV(y) * DivAbs(AbsV(x), AbsV(y)) : x \in {a}, y \in {b} })

\* ------------------------------------------------------------------------
\* numpy: pi, radians, degrees, sin, cos, clip
\* ------------------------------------------------------------------------
PI == 3141593
HalfPi == 1570796
QuarterPi == 785398
TwoPi == 6283185
\* 180 / pi
DegPerRad == 57295780

\* pi / 180 = 0.017453292520: its first six decimals and the next six
RadPerDegHi == 17453
RadPerDegLo == 292520

\* np.radians(x) = x * (pi / 180)
Radians(d) ==
    The({ Mul(x, RadPerDegHi) + RoundDiv(Mul(x, RadPerDegLo), S) : x \in {d} })

\* np.degrees(x) = x * (180 / pi)
Degrees(x) == Mul(x, DegPerRad)

\* Taylor polynomial of sin on [-pi/4, pi/4]:
\* x (1 - x^2/6 (1 - x^2/20 (1 - x^2/42 (1 - x^2/72))))
SinT(x) ==
    The({ Mul(x, S - RoundDiv(Mul(x2,
                 S - RoundDiv(Mul(x2,
                     S - RoundDiv(Mul(x2,
                         S - RoundDiv(x2, 72)), 42)), 20)), 6)) :
            x2 \in {Mul(x, x)} })

\* Taylor polynomial of cos on [-pi/4, pi/4]:
\* 1 - x^2/2 (1 - x^2/12 (1 - x^2/30 (1 - x^2/56)))
CosT(x) ==
    The({ S - RoundDiv(Mul(x2,
                 S - RoundDiv(Mul(x2,
                     S - RoundDiv(Mul(x2,
                         S - RoundDiv(x2, 56)), 30)), 12)), 2) :
            x2 \in {Mul(x, x)} })

\* x reduced to [-pi, pi)
Reduce(x) == ((x + PI) % TwoPi) - PI

\* sin on [0, pi]
SinPos(x) ==
    IF x <= QuarterPi THEN SinT(x)
    ELSE IF x <= PI - QuarterPi THEN CosT(HalfPi - x)
    ELSE SinT(PI - x)

\* cos on [0, pi]
CosPos(x) ==
    IF x <= QuarterPi THEN CosT(x)
    ELSE IF x <= PI - QuarterPi THEN SinT(HalfPi - x)
    ELSE -CosT(PI - x)

\* np.sin
Sin(x) == The({ SignV(r) * SinPos(AbsV(r)) : r \in {Reduce(x)} })

\* np.cos
Cos(x) == The({ CosPos(AbsV(r)) : r \in {Reduce(x)} })

\* np.clip(t, lo, hi)
Clip(t, lo, hi) == IF t < lo THEN lo ELSE IF t > hi THEN hi ELSE t

\* ------------------------------------------------------------------------
\* coriolis_earth_deflection.py: parameters
\* ------------------------------------------------------------------------
EARTH_RADIUS == 2 * S
OMEGA_DEMO == S \div 2
V0_NORTH == S \div 5
LAT_START == 0 * S
LON_START == -90 * S
SIM_TIME == 5 * S
N_STEPS == (SIM_TIME * 100) \div S

SOUTH_LAT_START == 45 * S
SOUTH_LON_START == -90 * S
SOUTH_V0 == -(S \div 10)
SOUTH_SIM_TIME == 5 * S
SOUTH_N_STEPS == (SOUTH_SIM_TIME * 100) \div S

\* 1e-6, the floor of cos(lat) in derivatives
EPS == 1

\* r_path = EARTH_RADIUS + 0.03
R_PATH == EARTH_RADIUS + 3 * (S \div 100)

\* ------------------------------------------------------------------------
\* Vectors (np.ndarray of floats)
\* ------------------------------------------------------------------------
VAdd(a, b) == The({ [j \in DOMAIN x |-> x[j] + y[j]] : x \in {a}, y \in {b} })

VScale(c, a) == The({ [j \in DOMAIN x |-> Mul(f, x[j])] : f \in {c}, x \in {a} })

VDouble(a) == The({ [j \in DOMAIN x |-> 2 * x[j]] : x \in {a} })

\* ------------------------------------------------------------------------
\* geo_to_xyz, compute_coriolis_trajectory, traj_to_xyz
\* ------------------------------------------------------------------------
geo_to_xyz(lat_deg, lon_deg, r) ==
    The({ << Mul(Mul(r, Cos(lat)), Cos(lon)),
             Mul(Mul(r, Cos(lat)), Sin(lon)),
             Mul(r, Sin(lat)) >> :
            lat \in {Radians(lat_deg)}, lon \in {Radians(lon_deg)} })

\* mutant: the floor replaced by an added epsilon
CosLat_Shifted(s) == Cos(s[1]) + EPS

\* cos_lat = max(np.cos(lat), 1e-6)
CosLat(s) == Max2(Cos(s[1]), EPS)

\* mutant: the Coriolis terms with the opposite sign
derivatives_WrongSign(s, omega) ==
    The({ << v, Div(u, CosLat(s)), -Mul(f, v), Mul(f, u) >> :
            u \in {s[3]}, v \in {s[4]}, f \in {Mul(2 * omega, Sin(s[1]))} })

derivatives(s, omega) ==
    The({ << v, Div(u, CosLat(s)), Mul(f, v), -Mul(f, u) >> :
            u \in {s[3]}, v \in {s[4]}, f \in {Mul(2 * omega, Sin(s[1]))} })

\* the four derivative evaluations of one loop iteration and their arguments
Stages(s, h, omega) ==
    The({ The({ The({ The({ [at |-> << s, s2, s3, s4 >>,
                              k |-> << k1, k2, k3, derivatives(s4, omega) >>] :
                          s4 \in {VAdd(s, VScale(h, k3))} }) :
                      s3 \in {VAdd(s, VScale(Mul(S \div 2, h), k2))},
                      k3 \in {derivatives(VAdd(s, VScale(Mul(S \div 2, h), k2)), omega)} }) :
                  s2 \in {VAdd(s, VScale(Mul(S \div 2, h), k1))},
                  k2 \in {derivatives(VAdd(s, VScale(Mul(S \div 2, h), k1)), omega)} }) :
              k1 \in {derivatives(s, omega)} })

\* mutant: an Euler step, state + dt * k1
Rk4Combine_Euler(s, h, k) == VAdd(s, VScale(h, k[1]))

\* state + (dt / 6) * (k1 + 2 * k2 + 2 * k3 + k4)
Rk4Combine(s, h, k) ==
    VAdd(s, VScale(RoundDiv(h, 6),
                   VAdd(VAdd(VAdd(k[1], VDouble(k[2])), VDouble(k[3])), k[4])))

\* mutant: the velocity columns taken for latitude and longitude
traj_to_xyz_Velocity(traj, r) ==
    [j \in 1..Len(traj) |->
        geo_to_xyz(Degrees(traj[j][3]), Degrees(traj[j][4]), r)]

traj_to_xyz(traj, r) ==
    [j \in 1..Len(traj) |->
        geo_to_xyz(Degrees(traj[j][1]), Degrees(traj[j][2]), r)]

\* step = max(1, len(deflected_pts) // 200)
SliceStep(n) == Max2(1, n \div 200)

\* mutant: the slice pts[step - 1::step]
EveryNth_Offset(pts, st) ==
    [j \in 1..(Len(pts) \div st) |-> pts[j * st]]

\* the slice pts[::step], step >= 1: the elements 0, step, 2 * step, ...
EveryNth(pts, st) ==
    [j \in 1..((Len(pts) + st - 1) \div st) |-> pts[(j - 1) * st + 1]]

\* x * m / d for integers 0 <= m and 0 < d, rounded to nearest, limb by limb
ScaleFrac(x, m, d) ==
    The({ SignV(a) * The({ q * K + ((2 * (r * K + m * (AbsV(a) % K)) + d) \div (2 * d)) :
                             q \in {(m * (AbsV(a) \div K)) \div d},
                             r \in {(m * (AbsV(a) \div K)) % d} }) :
            a \in {x} })

\* mutant: np.linspace(start, stop, num, endpoint=False)
linspace_NoEndpoint(start, stop, num) ==
    [j \in 1..num |-> start + ScaleFrac(stop - start, j - 1, num)]

\* np.linspace(start, stop, num): arange(num) * ((stop - start) / (num - 1))
\* + start, and the last element set to stop
linspace(start, stop, num) ==
    [j \in 1..num |->
        IF j = 1 THEN start
        ELSE IF j = num THEN stop
        ELSE start + ScaleFrac(stop - start, j - 1, num - 1)]

\* ------------------------------------------------------------------------
\* coriolis_merry_go_round.py: parameters and functions
\* ------------------------------------------------------------------------
PERSON_RADIUS == 13 * (S \div 10)
OMEGA == RoundDiv(PI, 9)
FLIGHT_TIME == 1 * S
THROW_SPEED_SCALE == 3 * S
ANGLE_A == 0 * S
ANGLE_B == HalfPi

\* scale = 0.78 in CoriolisSplitView.construct
SPLIT_SCALE == 78 * (S \div 100)

polar(angle, r) == << Mul(r, Cos(angle)), Mul(r, Sin(angle)), 0 >>

\* mutant: the z component of the argument kept
rot2d_KeepZ(v, th) ==
    The({ << Mul(c, x[1]) - Mul(s, x[2]), Mul(s, x[1]) + Mul(c, x[2]), x[3] >> :
            x \in {v}, c \in {Cos(th)}, s \in {Sin(th)} })

\* mutant: a sign of the rotation matrix lost
rot2d_SignLost(v, th) ==
    The({ << Mul(c, x[1]) + Mul(s, x[2]), Mul(s, x[1]) + Mul(c, x[2]), 0 >> :
            x \in {v}, c \in {Cos(th)}, s \in {Sin(th)} })

rot2d(v, th) ==
    The({ << Mul(c, x[1]) - Mul(s, x[2]), Mul(s, x[1]) + Mul(c, x[2]), 0 >> :
            x \in {v}, c \in {Cos(th)}, s \in {Sin(th)} })

\* mutant: the platform's velocity at the source left out
compute_v_inertial_AimOnly(pa, pb) ==
    [j \in 1..3 |-> Div(Mul(THROW_SPEED_SCALE, pb[j] - pa[j]), FLIGHT_TIME)]

compute_v_inertial(pa, pb) ==
    The({ VAdd(v_aim, omega_cross_r) :
            v_aim \in {[j \in 1..3 |->
                          Div(Mul(THROW_SPEED_SCALE, pb[j] - pa[j]), FLIGHT_TIME)]},
            omega_cross_r \in {<< Mul(-OMEGA, pa[2]), Mul(OMEGA, pa[1]), 0 >>} })

ball_inertial(t, pa, vi) == VAdd(pa, VScale(Clip(t, 0, FLIGHT_TIME), vi))

\* mutant: the rotation angle taken from the clamped time
ball_rotating_Clamped(t, pa, vi) ==
    rot2d(ball_inertial(t, pa, vi), Mul(-OMEGA, Clip(t, 0, FLIGHT_TIME)))

ball_rotating(t, pa, vi) == rot2d(ball_inertial(t, pa, vi), Mul(-OMEGA, t))

\* ------------------------------------------------------------------------
\* Inputs
\* ------------------------------------------------------------------------
MaxSteps == 4
MaxTick == 2
MaxTurn == 6

Args(lat0_deg, lon0_deg, v0, omega, sim_time, n_steps) ==
    [lat0_deg |-> lat0_deg, lon0_deg |-> lon0_deg, v0 |-> v0,
     omega |-> omega, sim_time |-> sim_time, n_steps |-> n_steps]

\* CoriolisEarthDeflection.construct
NorthArgs == Args(LAT_START, LON_START, V0_NORTH, OMEGA_DEMO, SIM_TIME, N_STEPS)

\* CoriolisEarthSouthward.construct
SouthArgs == Args(SOUTH_LAT_START, SOUTH_LON_START, SOUTH_V0, OMEGA_DEMO,
                  SOUTH_SIM_TIME, SOUTH_N_STEPS)

\* short runs at middle latitudes with the demo rotation rate
MidArgs ==
    { Args(lat * S, -90 * S, v, OMEGA_DEMO, 2 * S, n) :
        lat \in {0, 45, -45}, v \in {S \div 5, -(S \div 5)}, n \in 1..MaxSteps }

\* short runs that start near, at or beyond a pole and cross it; the rotation
\* rate is 0 or 2e-6, which keeps u / 1e-6 within the modelled magnitudes
PoleArgs ==
    { Args(lat * S, -90 * S, v, om, 2 * S, n) :
        lat \in {80, 90, 100, -90}, v \in {S \div 2, -(S \div 2)},
        om \in {0, 2}, n \in 1..MaxSteps }

\* n_steps <= 0 or sim_time <= 0
DegenerateArgs ==
    { Args(LAT_START, LON_START, V0_NORTH, OMEGA_DEMO, SIM_TIME, n) :
        n \in {0, -1, -2} }
    \cup
    { Args(LAT_START, LON_START, V0_NORTH, OMEGA_DEMO, t, n) :
        t \in {0, -S, -SIM_TIME}, n \in {0, 1, 2} }

AllArgs == {NorthArgs, SouthArgs} \cup MidArgs \cup PoleArgs \cup DegenerateArgs

\* times of the animation, a quarter of a second apart, before, during and
\* after the flight
Times == { k * (S \div 4) : k \in (-MaxTick)..(4 + MaxTick) }

\* rotation angles, pi/6 apart
Thetas == { RoundDiv(k * PI, 6) : k \in (-MaxTurn)..MaxTurn }

\* 3-component vectors
Vectors ==
    { << x, y, z >> : x \in {-PERSON_RADIUS, 0, S}, y \in {-PERSON_RADIUS, 0, S},
                      z \in {0, S \div 2} }

\* positions of the two persons on the disk
PersonAngles == { k * HalfPi : k \in 0..3 }
PersonRadii == { PERSON_RADIUS, Mul(PERSON_RADIUS, SPLIT_SCALE) }

VARIABLES
    pc,             \* where the call of compute_coriolis_trajectory stands
    args,           \* the arguments of compute_coriolis_trajectory
    dt,             \* dt = sim_time / n_steps
    state,          \* the working state [lat, lon, u, v]
    trajectory,     \* the list of samples
    it,             \* iterations of the for loop completed
    cos_lat,        \* the values cos_lat took in the last iteration
    deflected_pts,  \* traj_to_xyz(traj, r_path)
    step,           \* the stride of the slice of deflected_pts
    sampled,        \* deflected_pts[::step]
    final_lat_deg,  \* np.degrees(traj[-1, 0])
    straight_lats,  \* the latitudes np.linspace gives for the straight path
    straight_dots,  \* the points of the Dot3D's of the straight path
    dpc,            \* where the disk script stands
    v_in,           \* rot2d: the vector v
    theta,          \* rot2d: the angle
    v_out,          \* rot2d(v, theta)
    v_back,         \* rot2d(rot2d(v, theta), -theta)
    pA,             \* position of the thrower
    pB,             \* position of the catcher
    vi,             \* compute_v_inertial(pA, pB)
    tt,             \* the time the ball updaters were last called with
    b_i,            \* ball_inertial(tt)
    b_r,            \* ball_rotating(tt)
    disk_angle      \* the angle the disk is drawn at, OMEGA * t

svars == << pc, args, dt, state, trajectory, it, cos_lat, deflected_pts >>

cvars == << step, sampled, final_lat_deg, straight_lats, straight_dots >>

dvars == << dpc, v_in, theta, v_out, v_back, pA, pB, vi, tt, b_i, b_r,
           disk_angle >>

vars == << svars, cvars, dvars >>

\* ------------------------------------------------------------------------
\* The sphere script
\* ------------------------------------------------------------------------
SphereIdle ==
    /\ pc = "call"
    /\ dt = 0
    /\ state = << >>
    /\ trajectory = << >>
    /\ it = 0
    /\ cos_lat = << >>
    /\ deflected_pts = << >>
    /\ step = 0
    /\ sampled = << >>
    /\ final_lat_deg = 0
    /\ straight_lats = << >>
    /\ straight_dots = << >>

DiskIdle ==
    /\ dpc = "load"
    /\ v_in = << >>
    /\ theta = 0
    /\ v_out = << >>
    /\ v_back = << >>
    /\ pA = << >>
    /\ pB = << >>
    /\ vi = << >>
    /\ tt = 0
    /\ b_i = << >>
    /\ b_r = << >>
    /\ disk_angle = 0

Init ==
    /\ SphereIdle
    /\ args \in AllArgs
    /\ DiskIdle

\* mutant: every n_steps <= 0 rejected
DtRaises_Validating(n_steps) == n_steps <= 0

\* dt = sim_time / n_steps raises ZeroDivisionError
DtRaises(n_steps) == n_steps = 0

\* line 84 with n_steps = 0
EnterRaise ==
    /\ pc = "call"
    /\ DtRaises(args.n_steps)
    /\ pc' = "ZeroDivisionError"
    /\ UNCHANGED << args, dt, state, trajectory, it, cos_lat, deflected_pts >>
    /\ UNCHANGED cvars
    /\ UNCHANGED dvars

InitialState(a) == << Radians(a.lat0_deg), Radians(a.lon0_deg), 0, a.v0 >>

\* lines 84-88
Enter ==
    /\ pc = "call"
    /\ ~DtRaises(args.n_steps)
    /\ dt' = RoundDiv(args.sim_time, args.n_steps)
    /\ state' = InitialState(args)
    /\ trajectory' = << InitialState(args) >>
    /\ it' = 0
    /\ pc' = "loop"
    /\ UNCHANGED << args, cos_lat, deflected_pts >>
    /\ UNCHANGED cvars
    /\ UNCHANGED dvars

\* mutant: the working array itself appended and then updated in place, so
\* that every appended sample is the working state
AppendCopy_Shared(traj, s) ==
    [j \in 1..(Len(traj) + 1) |-> IF j = 1 THEN traj[1] ELSE s]

\* trajectory.append(state.copy()): the list gets an array of its own
AppendCopy(traj, s) == Append(traj, s)

\* mutant: one iteration too many
LoopRuns_OffByOne(done, n_steps) == done <= n_steps

\* for _ in range(n_steps)
LoopRuns(done, n_steps) == done < n_steps

\* lines 96-102: one iteration
Step ==
    /\ pc = "loop"
    /\ LoopRuns(it, args.n_steps)
    /\ \E st \in {Stages(state, dt, args.omega)} :
          /\ state' = Rk4Combine(state, dt, st.k)
          /\ trajectory' = AppendCopy(trajectory, state')
          /\ cos_lat' = << CosLat(st.at[1]), CosLat(st.at[2]),
                           CosLat(st.at[3]), CosLat(st.at[4]) >>
    /\ it' = it + 1
    /\ UNCHANGED << pc, args, dt, deflected_pts >>
    /\ UNCHANGED cvars
    /\ UNCHANGED dvars

\* line 104
Return ==
    /\ pc = "loop"
    /\ ~LoopRuns(it, args.n_steps)
    /\ pc' = "returned"
    /\ UNCHANGED << args, dt, state, trajectory, it, cos_lat, deflected_pts >>
    /\ UNCHANGED cvars
    /\ UNCHANGED dvars

\* deflected_pts = traj_to_xyz(traj, r_path)
Project ==
    /\ pc = "returned"
    /\ deflected_pts' = traj_to_xyz(trajectory, R_PATH)
    /\ pc' = "projected"
    /\ UNCHANGED << args, dt, state, trajectory, it, cos_lat >>
    /\ UNCHANGED cvars
    /\ UNCHANGED dvars

\* step = max(1, len(deflected_pts) // 200); sampled = deflected_pts[::step]
Sample ==
    /\ pc = "projected"
    /\ step' = SliceStep(Len(deflected_pts))
    /\ sampled' = EveryNth(deflected_pts, step')
    /\ pc' = "sampled"
    /\ UNCHANGED << args, dt, state, trajectory, it, cos_lat, deflected_pts >>
    /\ UNCHANGED << final_lat_deg, straight_lats, straight_dots >>
    /\ UNCHANGED dvars

\* final_lat_deg and the straight path: one Dot3D at
\* geo_to_xyz(lat, LON_START, r_path) for each lat of
\* np.linspace(LAT_START, final_lat_deg, 40)
Straight ==
    /\ pc = "sampled"
    /\ \E fl \in {Degrees(trajectory[Len(trajectory)][1])} :
          \E lats \in {linspace(args.lat0_deg, fl, 40)} :
             /\ final_lat_deg' = fl
             /\ straight_lats' = lats
             /\ straight_dots' =
                   [j \in 1..Len(lats) |-> geo_to_xyz(lats[j], args.lon0_deg, R_PATH)]
    /\ pc' = "dotted"
    /\ UNCHANGED << args, dt, state, trajectory, it, cos_lat, deflected_pts >>
    /\ UNCHANGED << step, sampled >>
    /\ UNCHANGED dvars

Next == EnterRaise \/ Enter \/ Step \/ Return \/ Project \/ Sample \/ Straight

Spec == Init /\ [][Next]_vars

\* ------------------------------------------------------------------------
\* The disk script
\* ------------------------------------------------------------------------
InitDisk ==
    /\ SphereIdle
    /\ args = NorthArgs
    /\ DiskIdle

\* a call rot2d(v, th)
Rot2dCall(v, th) ==
    /\ dpc = "load"
    /\ v_in' = v
    /\ theta' = th
    /\ v_out' = rot2d(v, th)
    /\ dpc' = "rotated"
    /\ UNCHANGED << v_back, pA, pB, vi, tt, b_i, b_r, disk_angle >>
    /\ UNCHANGED svars
    /\ UNCHANGED cvars

\* the result rotated back: rot2d(rot2d(v, th), -th)
Rot2dBack ==
    /\ dpc = "rotated"
    /\ v_back' = rot2d(v_out, -theta)
    /\ dpc' = "back"
    /\ UNCHANGED << v_in, theta, v_out, pA, pB, vi, tt, b_i, b_r, disk_angle >>
    /\ UNCHANGED svars
    /\ UNCHANGED cvars

\* pA = polar(..), pB = polar(..), vi = compute_v_inertial(pA, pB)
Setup(angle_a, angle_b, r) ==
    /\ dpc = "load"
    /\ pA' = polar(angle_a, r)
    /\ pB' = polar(angle_b, r)
    /\ vi' = compute_v_inertial(pA', pB')
    /\ dpc' = "ready"
    /\ UNCHANGED << v_in, theta, v_out, v_back, tt, b_i, b_r, disk_angle >>
    /\ UNCHANGED svars
    /\ UNCHANGED cvars

\* the value tracker at t: the ball updaters and the redrawn disk,
\* make_disk(C, OMEGA * t.get_value())
Tick(t) ==
    /\ dpc \in {"ready", "ticked"}
    /\ tt' = t
    /\ disk_angle' = Mul(OMEGA, t)
    /\ b_i' = ball_inertial(t, pA, vi)
    /\ b_r' = ball_rotating(t, pA, vi)
    /\ dpc' = "ticked"
    /\ UNCHANGED << v_in, theta, v_out, v_back, pA, pB, vi >>
    /\ UNCHANGED svars
    /\ UNCHANGED cvars

NextDisk ==
    \/ \E v \in Vectors, th \in Thetas : Rot2dCall(v, th)
    \/ Rot2dBack
    \/ \E a \in PersonAngles, b \in PersonAngles, r \in PersonRadii : Setup(a, b, r)
    \/ \E t \in Times : Tick(t)

SpecDisk == InitDisk /\ [][NextDisk]_vars

\* ------------------------------------------------------------------------
\* Properties
\* ------------------------------------------------------------------------
Returned == pc \in {"returned", "projected", "sampled", "dotted"}

Last(seq) == seq[Len(seq)]

\* D(lat, lon, u, v) = (v, u / max(cos(lat), 1e-6), f*v, -f*u), f = 2*omega*sin(lat)
C1_D(s, om) ==
    LET f == Mul(2 * om, Sin(s[1]))
    IN  << s[4], Div(s[3], Max2(Cos(s[1]), EPS)), Mul(f, s[4]), -Mul(f, s[3]) >>

\* s + (dt/6) * (k1 + 2*k2 + 2*k3 + k4) with the four classic RK4 stages
C1_Rk4(s, h, om) ==
    LET half == Mul(S \div 2, h)
        k1 == C1_D(s, om)
        k2 == C1_D([j \in 1..4 |-> s[j] + Mul(half, k1[j])], om)
        k3 == C1_D([j \in 1..4 |-> s[j] + Mul(half, k2[j])], om)
        k4 == C1_D([j \in 1..4 |-> s[j] + Mul(h, k3[j])], om)
    IN  [j \in 1..4 |->
            s[j] + Mul(RoundDiv(h, 6), k1[j] + 2 * k2[j] + 2 * k3[j] + k4[j])]

\* C1: every loop iteration advances the state by one classic RK4 step with
\* dt = sim_time / n_steps: the sample an iteration appends is the RK4 image
\* of the sample before it, and it is the new working state.
C1_EveryIterationIsRk4 ==
    ((pc = "loop" \/ Returned) /\ it >= 1) =>
        /\ dt = RoundDiv(args.sim_time, args.n_steps)
        /\ trajectory[it + 1] = C1_Rk4(trajectory[it], dt, args.omega)
        /\ state = trajectory[it + 1]

\* an iteration of the configured northward run in which all four state
\* components have moved
C1_Witness ==
    /\ pc = "loop"
    /\ args = NorthArgs
    /\ it = 250
    /\ \A j \in 1..4 : trajectory[it + 1][j] # trajectory[it][j]

C2_Samples ==
    args.n_steps >= 1 =>
        /\ pc # "ZeroDivisionError"
        /\ pc # "call" =>
              /\ Len(trajectory) = it + 1
              /\ it <= args.n_steps
              /\ trajectory[1] = << Radians(args.lat0_deg), Radians(args.lon0_deg),
                                    0, args.v0 >>
              /\ trajectory[1][3] = 0
              /\ 2 * Abs(args.n_steps * dt - args.sim_time) <= args.n_steps
        /\ Returned => (it = args.n_steps /\ Len(trajectory) = args.n_steps + 1)

\* every step of the call either completes one more iteration, appending one
\* sample, or moves the call or the scene on (entered, returned, projected,
\* sampled, dotted)
C2_Progress ==
    \/ (pc' = pc /\ pc = "loop" /\ it' = it + 1 /\ it' <= args.n_steps
          /\ Len(trajectory') = Len(trajectory) + 1)
    \/ (pc = "call" /\ pc' \in {"loop", "ZeroDivisionError"})
    \/ (pc = "loop" /\ pc' = "returned" /\ it = args.n_steps
          /\ trajectory' = trajectory)
    \/ (pc = "returned" /\ pc' = "projected")
    \/ (pc = "projected" /\ pc' = "sampled" /\ trajectory' = trajectory)
    \/ (pc = "sampled" /\ pc' = "dotted" /\ trajectory' = trajectory)
    \/ args.n_steps < 1

\* C2: for n_steps >= 1 the call raises nothing, sample 0 is the initial state
\* (radians(lat0_deg), radians(lon0_deg), 0, v0), iteration i appends sample i
\* (the state at t = i * dt), the iterations are counted up to n_steps and no
\* further, and the call returns after exactly n_steps iterations with
\* n_steps + 1 samples, the last at t = sim_time.
C2_SamplesAndTermination == []C2_Samples /\ [][C2_Progress]_vars

\* the configured southward run has returned its 501 samples
C2_Witness ==
    /\ pc = "returned"
    /\ args = SouthArgs
    /\ Len(trajectory) = 501

\* C3: in every derivative evaluation the divisor of the longitude rate is at
\* least 1e-6, hence positive; it is max(cos(lat), 1e-6), which is exactly
\* 1e-6 at a pole and beyond it; nothing is raised and the loop goes on to the
\* last step.
C3_DivisorFloored ==
    /\ \A j \in DOMAIN cos_lat : cos_lat[j] >= EPS /\ cos_lat[j] > 0
    /\ it >= 1 =>
          /\ DOMAIN cos_lat = 1..4
          /\ cos_lat[1] = Max2(Cos(trajectory[it][1]), EPS)
          /\ Abs(Reduce(trajectory[it][1])) >= HalfPi => cos_lat[1] = EPS
    /\ args.n_steps >= 1 =>
          /\ pc # "ZeroDivisionError"
          /\ Returned => it = args.n_steps

\* a run that went on to its last step after evaluating the derivative beyond
\* the pole with a non-zero eastward velocity
C3_Witness ==
    /\ pc = "returned"
    /\ it = args.n_steps
    /\ it >= 2
    /\ Abs(trajectory[it][1]) > HalfPi
    /\ trajectory[it][3] # 0
    /\ cos_lat = << EPS, EPS, EPS, EPS >>
    /\ \E j \in 1..it : Abs(trajectory[j][1]) < HalfPi

Degenerate == args.n_steps <= 0 \/ args.sim_time <= 0

\* C4 as stated: a call with n_steps <= 0 or sim_time <= 0 fails and returns
\* no trajectory.
C4_DegenerateAlwaysFails == Degenerate => ~Returned

\* C4 amended: the call fails (ZeroDivisionError while computing dt, nothing
\* returned) exactly when n_steps = 0; with n_steps < 0 it returns the initial
\* state alone, and with sim_time <= 0 and n_steps >= 1 it returns the usual
\* n_steps + 1 samples.
C4_FailsOnlyOnZeroSteps ==
    /\ args.n_steps = 0 =>
          (pc \in {"call", "ZeroDivisionError"} /\ trajectory = << >>)
    /\ pc = "ZeroDivisionError" => args.n_steps = 0
    /\ (Returned /\ args.n_steps < 0) =>
          (it = 0 /\ trajectory = << << Radians(args.lat0_deg),
                                       Radians(args.lon0_deg), 0, args.v0 >> >>)
    /\ (Returned /\ args.n_steps >= 1 /\ args.sim_time <= 0) =>
          (dt <= 0 /\ Len(trajectory) = args.n_steps + 1)

\* a call with n_steps = 0 and sim_time <= 0 has failed
C4_Witness ==
    /\ pc = "ZeroDivisionError"
    /\ args.n_steps = 0
    /\ args.sim_time <= 0

\* C9: the configured northward run ends north of 0 degrees and east of -90
\* degrees; the configured southward run ends west of -90 degrees.
C9_Deflection ==
    Returned =>
        /\ args = NorthArgs =>
              /\ Len(trajectory) = 501
              /\ Degrees(Last(trajectory)[1]) > 0
              /\ Degrees(Last(trajectory)[2]) > -90 * S
        /\ args = SouthArgs =>
              /\ Len(trajectory) = 501
              /\ Degrees(Last(trajectory)[2]) < -90 * S

\* the configured northward run has returned
C9_Witness ==
    /\ pc = "returned"
    /\ args = NorthArgs
    /\ it = 500
    /\ args.v0 = S \div 5
    /\ args.omega = S \div 2

\* EARTH_RADIUS + 0.03
C10_R == (203 * S) \div 100

XyzTol == 4 * EPS

\* (r*cos(lat)*cos(lon), r*cos(lat)*sin(lon), r*sin(lat))
C10_Xyz(lat, lon, r) ==
    << Mul(Mul(r, Cos(lat)), Cos(lon)), Mul(Mul(r, Cos(lat)), Sin(lon)),
       Mul(r, Sin(lat)) >>

\* C10: traj_to_xyz returns one point per sample, in order; point i is
\* (r*cos(lat)*cos(lon), r*cos(lat)*sin(lon), r*sin(lat)) of sample i's own
\* latitude and longitude taken through degrees and back to radians, with
\* r = EARTH_RADIUS + 0.03, which is the point of the latitude and longitude
\* themselves within 4e-6; the velocity components play no part.
C10_OnePointPerSample ==
    pc = "projected" =>
        /\ Len(deflected_pts) = Len(trajectory)
        /\ \A j \in 1..Len(trajectory) :
              /\ deflected_pts[j] = C10_Xyz(Radians(Degrees(trajectory[j][1])),
                                            Radians(Degrees(trajectory[j][2])), C10_R)
              /\ \A c \in 1..3 :
                    Abs(deflected_pts[j][c]
                          - C10_Xyz(trajectory[j][1], trajectory[j][2], C10_R)[c])
                      <= XyzTol

\* the configured northward trajectory has been projected and its samples
\* carry non-zero velocities
C10_Witness ==
    /\ pc = "projected"
    /\ args = NorthArgs
    /\ Len(deflected_pts) = 501
    /\ Last(trajectory)[3] # 0
    /\ Last(trajectory)[4] # 0
    /\ deflected_pts[1] # Last(deflected_pts)

\* C5: for every time t, ball_inertial(t) = pa + vi * clamp(t, 0, FLIGHT_TIME)
\* and ball_rotating(t) is ball_inertial(t) rotated by -OMEGA * t with the
\* unclamped t; at t = 0 both are pa, and at t = FLIGHT_TIME the rotating
\* position is the inertial one rotated by -OMEGA * FLIGHT_TIME.
C5_BallClosedForm ==
    dpc = "ticked" =>
        LET c == IF tt < 0 THEN 0 ELSE IF tt > FLIGHT_TIME THEN FLIGHT_TIME ELSE tt
            a == -Mul(OMEGA, tt)
        IN  /\ b_i = [j \in 1..3 |-> pA[j] + Mul(vi[j], c)]
            /\ b_r = << Mul(Cos(a), b_i[1]) - Mul(Sin(a), b_i[2]),
                        Mul(Sin(a), b_i[1]) + Mul(Cos(a), b_i[2]), 0 >>
            /\ tt = 0 => (b_i = pA /\ b_r = pA)
            /\ tt = FLIGHT_TIME => b_r = rot2d(b_i, -Mul(OMEGA, FLIGHT_TIME))
            /\ tt >= FLIGHT_TIME => b_i = [j \in 1..3 |-> pA[j] + Mul(vi[j], FLIGHT_TIME)]
            /\ tt <= 0 => b_i = pA

\* the program's own throw, looked at after the flight has ended: the ball
\* rests in the inertial frame and is still turned in the rotating one
C5_Witness ==
    /\ dpc = "ticked"
    /\ pA = polar(ANGLE_A, PERSON_RADIUS)
    /\ pB = polar(ANGLE_B, PERSON_RADIUS)
    /\ tt > FLIGHT_TIME
    /\ b_i = ball_inertial(FLIGHT_TIME, pA, vi)
    /\ b_r # rot2d(b_i, -Mul(OMEGA, FLIGHT_TIME))

\* C6: compute_v_inertial(pa, pb) is THROW_SPEED_SCALE * (pb - pa) /
\* FLIGHT_TIME + (-OMEGA * pa_y, OMEGA * pa_x, 0), and with the platform's
\* velocity at pa taken off it is parallel to pb - pa.
C6_AimPlusPlatform ==
    dpc \in {"ready", "ticked"} =>
        LET d == [j \in 1..3 |-> pB[j] - pA[j]]
            plat == << -Mul(OMEGA, pA[2]), Mul(OMEGA, pA[1]), 0 >>
            w == [j \in 1..3 |-> vi[j] - plat[j]]
        IN  /\ vi = [j \in 1..3 |->
                        Div(Mul(THROW_SPEED_SCALE, d[j]), FLIGHT_TIME) + plat[j]]
            /\ Mul(w[1], d[2]) - Mul(w[2], d[1]) = 0
            /\ Mul(w[2], d[3]) - Mul(w[3], d[2]) = 0
            /\ Mul(w[3], d[1]) - Mul(w[1], d[3]) = 0
            /\ \A j \in 1..3 : Sign(w[j]) * Sign(d[j]) >= 0

\* the program's own throw from A to B: the platform moves at A, so the
\* inertial velocity is not along the aim
C6_Witness ==
    /\ dpc = "ready"
    /\ pA = polar(ANGLE_A, PERSON_RADIUS)
    /\ pB = polar(ANGLE_B, PERSON_RADIUS)
    /\ vi # [j \in 1..3 |-> 3 * (pB[j] - pA[j])]

\* C7 as stated: rot2d rotates the x and y components by the planar rotation
\* matrix and passes the z component through unchanged.
C7_ZPassedThrough ==
    dpc \in {"rotated", "back"} =>
        /\ v_out[1] = Mul(Cos(theta), v_in[1]) - Mul(Sin(theta), v_in[2])
        /\ v_out[2] = Mul(Sin(theta), v_in[1]) + Mul(Cos(theta), v_in[2])
        /\ v_out[3] = v_in[3]

\* C7 amended: rot2d rotates the x and y components by the planar rotation
\* matrix and returns 0 as z component whatever the z of its argument; the z
\* of the result is that of the argument only when the latter is 0.
C7_PlanarRotationZeroZ ==
    dpc \in {"rotated", "back"} =>
        /\ v_out[1] = Mul(Cos(theta), v_in[1]) - Mul(Sin(theta), v_in[2])
        /\ v_out[2] = Mul(Sin(theta), v_in[1]) + Mul(Cos(theta), v_in[2])
        /\ v_out[3] = 0
        /\ (v_out[3] = v_in[3]) <=> (v_in[3] = 0)

\* a vector off the plane has been turned by a quarter turn
C7_Witness ==
    /\ dpc = "rotated"
    /\ theta = RoundDiv(3 * PI, 6)
    /\ v_in = << S, 0, S \div 2 >>
    /\ Abs(v_out[1]) <= EPS
    /\ Abs(v_out[2] - S) <= EPS
    /\ v_out[3] = 0

RotTol == 2 * EPS

\* C8 as stated: rotating by theta and then by -theta gives v back, within
\* 2e-6 in every component.
C8_RoundTrip ==
    dpc = "back" => \A j \in 1..3 : Abs(v_back[j] - v_in[j]) <= RotTol

\* C8 amended: rotating by theta and then by -theta gives the x and y
\* components of v back within 2e-6 and 0 as z component; it is the identity
\* (within 2e-6) on the vectors whose z component is 0.
C8_RoundTripInThePlane ==
    dpc = "back" =>
        /\ \A j \in 1..2 : Abs(v_back[j] - v_in[j]) <= RotTol
        /\ v_back[3] = 0
        /\ v_in[3] = 0 => \A j \in 1..3 : Abs(v_back[j] - v_in[j]) <= RotTol

\* a planar vector with both components non-zero has been turned by a
\* third of a turn, which moves it, and turned back
C8_Witness ==
    /\ dpc = "back"
    /\ theta = RoundDiv(4 * PI, 6)
    /\ v_in = << S, -PERSON_RADIUS, 0 >>
    /\ \A j \in 1..2 : Abs(v_out[j] - v_in[j]) > S \div 4
    /\ \A j \in 1..3 : Abs(v_back[j] - v_in[j]) <= RotTol

\* EARTH_RADIUS + 0.03, the radius of the deflected path
C11_R == (203 * S) \div 100

C11_Tol == 8 * EPS

\* on the squared radius: 1.6e-5 there is 4e-6 on the radius
C11_NormTol == 16 * EPS

C11_Norm2(p) == Mul(p[1], p[1]) + Mul(p[2], p[2]) + Mul(p[3], p[3])

\* the point p lies at radius C11_R on the meridian lon_deg at latitude
\* lat_deg, within the tolerances
C11_OnMeridian(p, lat_deg, lon_deg) ==
    LET la == Radians(lat_deg)
        lo == Radians(lon_deg)
    IN  /\ Abs(Mul(p[1], Sin(lo)) - Mul(p[2], Cos(lo))) <= C11_Tol
        /\ Abs(Mul(p[1], Cos(lo)) + Mul(p[2], Sin(lo)) - Mul(C11_R, Cos(la)))
             <= C11_Tol
        /\ Abs(p[3] - Mul(C11_R, Sin(la))) <= C11_Tol
        /\ Abs(C11_Norm2(p) - Mul(C11_R, C11_R)) <= C11_NormTol

\* C11: the straight reference path is 40 points on the initial longitude at
\* the radius of the deflected path; their latitudes rise by equal increments
\* (within the rounding unit) from the initial latitude to exactly the
\* latitude, in degrees, of the last sample of the trajectory, whatever the
\* number of samples; the first point is the first point of the deflected
\* path and the last one has the height of its last point.
C11_StraightPath ==
    pc = "dotted" =>
        /\ Len(straight_lats) = 40
        /\ Len(straight_dots) = 40
        /\ straight_lats[1] = args.lat0_deg
        /\ final_lat_deg = Degrees(Last(trajectory)[1])
        /\ straight_lats[40] = final_lat_deg
        /\ \A j \in 1..38 :
              Abs((straight_lats[j + 2] - straight_lats[j + 1])
                    - (straight_lats[j + 1] - straight_lats[j])) <= EPS
        /\ \A j \in 1..40 :
              C11_OnMeridian(straight_dots[j], straight_lats[j], args.lon0_deg)
        /\ \A c \in 1..3 : Abs(straight_dots[1][c] - deflected_pts[1][c]) <= C11_Tol
        /\ Abs(straight_dots[40][3] - Last(deflected_pts)[3]) <= C11_Tol
        /\ \A j \in 1..Len(deflected_pts) :
              Abs(C11_Norm2(deflected_pts[j]) - Mul(C11_R, C11_R)) <= C11_NormTol

\* the straight path of the northward scene: it climbs from the equator to
\* the final latitude, where the deflected path ends on another longitude
C11_Witness ==
    /\ pc = "dotted"
    /\ args = NorthArgs
    /\ Len(straight_dots) = 40
    /\ straight_lats[1] = 0
    /\ straight_lats[40] > 30 * S
    /\ straight_lats[2] > 0
    /\ straight_dots[40][3] > straight_dots[1][3]
    /\ Abs(straight_dots[40][1] - Last(deflected_pts)[1]) > S \div 2

\* one step of the program after the call has been entered: the samples
\* already in the trajectory, the arguments and dt stay as they are; a loop
\* iteration adds exactly one sample, the new working state, and any other
\* step adds none
C12_Frame ==
    pc # "call" =>
        /\ Len(trajectory') >= Len(trajectory)
        /\ \A j \in 1..Len(trajectory) : trajectory'[j] = trajectory[j]
        /\ args' = args
        /\ dt' = dt
        /\ it' # it =>
              /\ it' = it + 1
              /\ Len(trajectory') = Len(trajectory) + 1
              /\ trajectory'[Len(trajectory')] = state'
        /\ it' = it => trajectory' = trajectory

\* C12: every loop iteration appends exactly one sample and leaves the samples
\* appended before, sample 0 included, as they were, although the working
\* state moves on; no iteration changes the arguments or dt, and nothing after
\* the loop changes the trajectory.
C12_AppendOnly == [][C12_Frame]_vars

\* three iterations of a four-step run are done: the working state has moved
\* three times, and sample 0 is still the initial state
C12_Witness ==
    /\ pc = "loop"
    /\ args.n_steps = 4
    /\ it = 3
    /\ Len(trajectory) = 4
    /\ trajectory[1] = InitialState(args)
    /\ state = trajectory[4]
    /\ \A i, j \in 1..4 : i # j => trajectory[i] # trajectory[j]
    /\ dt = S \div 2

\* C13 as stated: with the configured OMEGA and FLIGHT_TIME the disk has
\* turned by OMEGA * FLIGHT_TIME = pi/3 (60 degrees) when the flight ends.
C13_FlightTurnsSixtyDegrees ==
    (dpc = "ticked" /\ tt = FLIGHT_TIME) =>
        /\ Abs(disk_angle - RoundDiv(PI, 3)) <= 2 * EPS
        /\ Abs(Degrees(disk_angle) - 60 * S) <= 100 * EPS

\* C14: the down-sampled list is non-empty, takes every step-th point of the
\* projected trajectory in the trajectory's order, starting with the first
\* point (sample 0, t = 0); in both configured scenes there are 501 points,
\* the stride is 2, 251 points are retained and the last retained point is
\* the last point of the trajectory (sample n_steps, t = sim_time).
C14_Downsampled ==
    pc \in {"sampled", "dotted"} =>
        /\ Len(deflected_pts) = Len(trajectory)
        /\ step >= 1
        /\ Len(sampled) >= 1
        /\ Len(sampled) <= Len(deflected_pts)
        /\ sampled[1] = deflected_pts[1]
        /\ \A j \in 1..Len(sampled) :
              /\ (j - 1) * step + 1 <= Len(deflected_pts)
              /\ sampled[j] = deflected_pts[(j - 1) * step + 1]
        /\ Len(sampled) * step >= Len(deflected_pts)
        /\ (Len(deflected_pts) - 1) % step = 0 => Last(sampled) = Last(deflected_pts)
        /\ args \in {NorthArgs, SouthArgs} =>
              /\ args.n_steps = 500
              /\ Len(deflected_pts) = 501
              /\ step = 2
              /\ Len(sampled) = 251
              /\ sampled[251] = deflected_pts[501]
              /\ Last(sampled) = Last(deflected_pts)

\* the southward scene has taken every second of its 501 points
C14_Witness ==
    /\ pc = "sampled"
    /\ args = SouthArgs
    /\ step = 2
    /\ Len(sampled) = 251
    /\ sampled[2] = deflected_pts[3]
    /\ sampled[2] # deflected_pts[2]
    /\ sampled[251] = deflected_pts[501]
    /\ sampled[1] # sampled[251]
====
